---- MODULE Spec2Model ----
(***************************************************************************)
(* Model of src-tauri/src/cloudflare_manager.rs: the CloudflareManager     *)
(* registry (connect / disconnect / disconnect_all / get_status), the      *)
(* supervision task that connect spawns, and the stderr_reader task that   *)
(* each attempt spawns.                                                     *)
(*                                                                         *)
(* Tasks run on a multi-threaded runtime, so the supervision task, the     *)
(* reader task and the threads calling the manager interleave at every     *)
(* step below.  A tokio Notify is modelled by its permit: notify_one       *)
(* stores one permit (or hands it to the registered waiter), notified()    *)
(* completes by consuming it.  tokio::select! without `biased` polls its   *)
(* branches in random order, so when two branches are ready either one     *)
(* may be taken.                                                           *)
(***************************************************************************)
EXTENDS Integers, Sequences, FiniteSets, TLC

\* ------------------------------------------------------------------ bounds
MaxSpawns   == 6    \* spawn attempts of one session, deep scenario
MaxLines    == 2    \* stderr lines read per attempt, deep scenario
DeepIds     == 2    \* tunnel ids, deep scenario
WideIds     == 2    \* tunnel ids, wide scenario
WideThreads == 2    \* threads calling connect, wide scenario
WideSessions == 2   \* sessions ever created, wide scenario
WideSpawns  == 1    \* spawn attempts of one session, wide scenario
FairSpawns  == 2    \* spawn attempts of one session, fair scenario
FairLines   == 1    \* stderr lines read per attempt, fair scenario
MaxMarks    == 3    \* marker occurrences in one line, classifier scenario
UrlSpawns   == 2    \* spawn attempts of one session, URL scenario
UrlLines    == 3    \* stderr lines read per attempt, URL scenario

\* ------------------------------------------------------- program constants
MAX_RETRIES == 3

None  == 0          \* no session registered / no session created
NoUrl == "none"     \* Option<String>::None
NoLine == [marks |-> {}, tok |-> NoUrl]

VARIABLES
    tunnels,    \* CloudflareManager.tunnels: id -> session (None when absent)
    sessions,   \* every supervision task ever spawned, in creation order
    calls,      \* per calling thread: the connect call in flight
    noop,       \* history: some disconnect found no entry for its id
    env         \* the scenario's limits, fixed by Init

vars == <<tunnels, sessions, calls, noop, env>>

Ids     == 1..env.ids
Threads == 1..env.threads
Sess    == 1..Len(sessions)

\* ------------------------------------------------------------ line classes
\* A line is the set of marker occurrences it contains, each with its case
\* ("lower": as written below, "other": some other casing), and the
\* whitespace-delimited token that starts at its first "https://".
Markers == {"registered", "connection", "connindex", ".trycloudflare.com",
            ".cfargotunnel.com", "https://", "err ", "failed",
            "failed to parse", "unable to", "initial protocol",
            "connection established"}

\* markers that are substrings of marker m
Sub(m) == IF m = "failed to parse" THEN {"failed to parse", "failed"}
          ELSE IF m = "connection established"
               THEN {"connection established", "connection"}
          ELSE {m}

\* line_lower.contains(m)
LowerContains(line, m) == \E o \in line.marks : m \in Sub(o[1])
\* line.contains(m)
RawContains(line, m) == \E o \in line.marks : o[2] = "lower" /\ m \in Sub(o[1])

\* line[url_start..].split_whitespace().next().unwrap_or("")
ExtractUrl(line) == line.tok

\* Variant of Classify: the error rule tested before the domain rule.
Classify_errfirst(line) ==
    IF LowerContains(line, "registered")
       /\ (LowerContains(line, "connection") \/ LowerContains(line, "connindex"))
    THEN "registered"
    ELSE IF LowerContains(line, "err ")
            \/ (LowerContains(line, "failed")
                /\ ~LowerContains(line, "failed to parse"))
            \/ LowerContains(line, "unable to")
    THEN "error"
    ELSE IF RawContains(line, ".trycloudflare.com")
            \/ RawContains(line, ".cfargotunnel.com")
    THEN (IF RawContains(line, "https://") THEN "url" ELSE "nomatch")
    ELSE IF LowerContains(line, "initial protocol")
            \/ LowerContains(line, "connection established")
    THEN "established"
    ELSE "nomatch"

\* The if / else-if chain of stderr_reader: which branch a line takes.
Classify(line) ==
    IF LowerContains(line, "registered")
       /\ (LowerContains(line, "connection") \/ LowerContains(line, "connindex"))
    THEN "registered"
    ELSE IF RawContains(line, ".trycloudflare.com")
            \/ RawContains(line, ".cfargotunnel.com")
    THEN (IF RawContains(line, "https://") THEN "url" ELSE "nomatch")
    ELSE IF LowerContains(line, "err ")
            \/ (LowerContains(line, "failed")
                /\ ~LowerContains(line, "failed to parse"))
            \/ LowerContains(line, "unable to")
    THEN "error"
    ELSE IF LowerContains(line, "initial protocol")
            \/ LowerContains(line, "connection established")
    THEN "established"
    ELSE "nomatch"

IsConnectedClass(c) == c \in {"registered", "url", "established"}

LineRegistered == [marks |-> {<<"registered", "other">>, <<"connindex", "other">>},
                   tok |-> NoUrl]
LineQuickUrl   == [marks |-> {<<"https://", "lower">>, <<".trycloudflare.com", "lower">>},
                   tok |-> "https://abc123.trycloudflare.com"]
LineNamedUrl   == [marks |-> {<<"https://", "lower">>, <<".cfargotunnel.com", "lower">>},
                   tok |-> "https://t1.cfargotunnel.com"]
LineFailed     == [marks |-> {<<"failed", "lower">>}, tok |-> NoUrl]
LineInfo       == [marks |-> {<<"failed to parse", "lower">>}, tok |-> NoUrl]

\* the lines the supervised process writes in the session scenarios
SessionLines == {LineRegistered, LineQuickUrl, LineFailed, LineInfo}

\* every marker in either casing
Occurrences == Markers \X {"lower", "other"}

\* the sets of at most n marker occurrences
RECURSIVE MarkSets(_)
MarkSets(n) ==
    IF n = 0 THEN {{}}
    ELSE LET S == MarkSets(n - 1) IN
         S \cup {m \cup {o} : m \in S, o \in Occurrences}

\* every line of at most MaxMarks marker occurrences; it has a URL token
\* when it contains "https://" as written
ClassifierLines ==
    {[marks |-> m,
      tok |-> IF <<"https://", "lower">> \in m
              THEN "https://abc123.trycloudflare.com" ELSE NoUrl] :
       m \in MarkSets(MaxMarks)}

\* the lines of the scenario in force
LineSet ==
    CASE env.lineset = "session" -> SessionLines
      [] env.lineset = "registered" -> {LineRegistered}
      [] env.lineset = "url" -> {LineRegistered, LineQuickUrl, LineNamedUrl}
      [] env.lineset = "classifier" -> ClassifierLines

\* ------------------------------------------------------------------ events
\* emit_status(status, msg, url)
Ev(status, msg, url) == [status |-> status, message |-> msg, url |-> url]

EvStarting   == Ev("connecting", "Starting tunnel...", NoUrl)
EvPort       == Ev("connecting", "Connecting to port", NoUrl)
EvAuth       == Ev("connecting", "Authenticating...", NoUrl)
EvNotFound   == Ev("error", "cloudflared not found", NoUrl)
EvStartFail  == Ev("error", "Failed to start", NoUrl)
EvGiveUpStart == Ev("error", "Failed to start after multiple attempts", NoUrl)
EvGiveUpConn == Ev("error", "Failed to connect after multiple attempts", NoUrl)
EvClosed     == Ev("disconnected", "Tunnel closed", NoUrl)
EvExitCode   == Ev("error", "Exit code", NoUrl)
EvProcErr    == Ev("error", "Process error", NoUrl)
EvLost       == Ev("reconnecting", "Connection lost, reconnecting...", NoUrl)
EvRetrying   == Ev("reconnecting", "Retrying", NoUrl)
EvStopped    == Ev("disconnected", "Tunnel stopped", NoUrl)
NoEv         == Ev("none", "none", NoUrl)

\* ---------------------------------------------------------------- sessions
\* The supervision task of one connect call, with the state of its current
\* attempt (child, reader) and the history the properties read.
NewSession(id) ==
    [id |-> id,
     pc |-> "start",            \* start, loop, running, delay, done
     retry_count |-> 0,
     permit |-> FALSE,          \* notify_stop holds a notification
     timer |-> "off",           \* the 5 s sleep: off, pending, expired
     child |-> "none",          \* none, running, exited, killed
     exit_status |-> "none",    \* success, failure, waiterr
     reader |-> "none",         \* none, waiting, got, stored, stopped
     aborted |-> FALSE,         \* stderr_reader.abort() was called
     line |-> NoLine,           \* the line the reader took last, until its event
     is_connected |-> FALSE,
     detected_url |-> NoUrl,
     out |-> <<>>,              \* events of the supervision task's last emitting step
     rout |-> NoEv,             \* the reader's last event since then
     \* history
     inserted |-> FALSE,        \* connect has inserted it into tunnels
     nSignal |-> 0,             \* notify_one calls on its notify_stop
     nKill |-> 0,               \* child.kill() calls
     nStopped |-> 0,            \* "Tunnel stopped" events
     nSpawn |-> 0,              \* cmd.spawn() calls
     nReconn |-> 0,             \* "reconnecting" events
     nLines |-> 0,              \* lines read in the current attempt
     attemptUrl |-> NoUrl,      \* token of the last URL line read in the attempt
     classified |-> FALSE,      \* some line of the session classified Connected
     everConn |-> FALSE,        \* some exit found is_connected set
     connEmitted |-> FALSE,     \* `connected` emitted in the current attempt
     allConn |-> TRUE,          \* every attempt so far connected before its exit
     spawnFailed |-> FALSE,     \* some spawn failed (other than NotFound)
     spawnedOk |-> FALSE]       \* some spawn succeeded

Set(s, rec) == sessions' = [sessions EXCEPT ![s] = rec]

\* notify_stop.notify_one()
\* variant: notify_waiters() in place of notify_one(), which wakes a task
\* waiting in a select and stores no permit otherwise
Notify_waiters(rec) ==
    [rec EXCEPT !.permit = @ \/ rec.pc \in {"running", "delay"},
                !.nSignal = IF @ < 2 THEN @ + 1 ELSE @]

Notify(rec) == [rec EXCEPT !.permit = TRUE, !.nSignal = IF @ < 2 THEN @ + 1 ELSE @]

\* variant: the stop branch lets go of the child without killing it
Kill_detach(child) == child

\* let _ = child.kill().await (the child is spawned with kill_on_drop(true),
\* so dropping it at the end of the arm kills it as well)
Kill(child) == IF child = "running" THEN "killed" ELSE child

\* stderr_reader.abort(): a reader parked at next_line().await is cancelled
\* there; one that is processing a line runs on to its next await.
Abort(rec) ==
    IF rec.reader = "waiting"
    THEN [rec EXCEPT !.reader = "stopped", !.aborted = TRUE]
    ELSE [rec EXCEPT !.aborted = TRUE]


\* ---------------------------------------------------------- backoff policy
\* Variant of ExitDecision: the budget test written `<=`.
ExitDecision_le(is_connected, retry_count) ==
    IF is_connected
    THEN [retry_count |-> 0, ev |-> EvLost, stop |-> FALSE]
    ELSE IF retry_count <= MAX_RETRIES
    THEN [retry_count |-> retry_count + 1, ev |-> EvRetrying, stop |-> FALSE]
    ELSE [retry_count |-> retry_count, ev |-> EvGiveUpConn, stop |-> TRUE]

\* Variant of ExitDecision: the connected branch leaves retry_count alone.
ExitDecision_noreset(is_connected, retry_count) ==
    IF is_connected
    THEN [retry_count |-> retry_count, ev |-> EvLost, stop |-> FALSE]
    ELSE IF retry_count < MAX_RETRIES
    THEN [retry_count |-> retry_count + 1, ev |-> EvRetrying, stop |-> FALSE]
    ELSE [retry_count |-> retry_count, ev |-> EvGiveUpConn, stop |-> TRUE]

\* Variant of ExitDecision: the budget is exhausted without the final error.
ExitDecision_silent(is_connected, retry_count) ==
    IF is_connected
    THEN [retry_count |-> 0, ev |-> EvLost, stop |-> FALSE]
    ELSE IF retry_count < MAX_RETRIES
    THEN [retry_count |-> retry_count + 1, ev |-> EvRetrying, stop |-> FALSE]
    ELSE [retry_count |-> retry_count, ev |-> EvRetrying, stop |-> TRUE]

\* The decision after a process exit (the if / else-if / else on
\* is_connected and retry_count): the new retry_count, the event, and
\* whether the loop breaks.
ExitDecision(is_connected, retry_count) ==
    IF is_connected
    THEN [retry_count |-> 0, ev |-> EvLost, stop |-> FALSE]
    ELSE IF retry_count < MAX_RETRIES
    THEN [retry_count |-> retry_count + 1, ev |-> EvRetrying, stop |-> FALSE]
    ELSE [retry_count |-> retry_count, ev |-> EvGiveUpConn, stop |-> TRUE]

\* The decision after a spawn failure other than NotFound:
\* retry_count += 1; if retry_count >= MAX_RETRIES { ...; break }
SpawnFailDecision(retry_count) ==
    [retry_count |-> retry_count + 1, stop |-> retry_count + 1 >= MAX_RETRIES]

\* the event for the exit status of child.wait()
ExitEvent(st) ==
    IF st = "success" THEN EvClosed
    ELSE IF st = "failure" THEN EvExitCode
    ELSE EvProcErr

ExitStatuses == {"success", "failure", "waiterr"}

\* ------------------------------------------------------------ the registry
\* Variant of disconnect: looks the entry up (get) instead of removing it.
disconnect_keep(id) ==
    [tunnels  |-> tunnels,
     sessions |-> IF tunnels[id] # None
                  THEN [sessions EXCEPT ![tunnels[id]] = Notify(@)]
                  ELSE sessions]

\* Variant of disconnect: notifies every registered session, as
\* disconnect_all does, and removes the entry of id.
disconnect_notify_all(id) ==
    [tunnels  |-> [tunnels EXCEPT ![id] = None],
     sessions |-> [s \in Sess |->
                     IF \E i \in Ids : tunnels[i] = s
                     THEN Notify(sessions[s]) ELSE sessions[s]]]

\* disconnect(id): remove the entry and notify the session it held.
disconnect(id) ==
    [tunnels  |-> [tunnels EXCEPT ![id] = None],
     sessions |-> IF tunnels[id] # None
                  THEN [sessions EXCEPT ![tunnels[id]] = Notify(@)]
                  ELSE sessions]

\* get_status(id)
get_status(id) == IF tunnels[id] # None THEN "active" ELSE "inactive"

Idle == [pc |-> "idle", id |-> None, s |-> None]

\* connect, first part: self.disconnect(&config.id), then the task is spawned
\* (it may run before the insert below).
ConnectSpawn(t, id) ==
    /\ calls[t].pc = "idle"
    /\ Len(sessions) < env.sessions
    /\ tunnels' = disconnect(id).tunnels
    /\ sessions' = Append(disconnect(id).sessions, NewSession(id))
    /\ calls' = [calls EXCEPT ![t] = [pc |-> "spawned", id |-> id,
                                      s |-> Len(sessions) + 1]]
    /\ UNCHANGED <<noop, env>>

\* connect, second part: tunnels.lock().unwrap().insert(config_id, ...).
\* The entry it replaces, if any, is dropped: dropping a JoinHandle detaches
\* the task, and nothing notifies it.
ConnectInsert(t) ==
    /\ calls[t].pc = "spawned"
    /\ tunnels' = [tunnels EXCEPT ![calls[t].id] = calls[t].s]
    /\ sessions' = [sessions EXCEPT ![calls[t].s].inserted = TRUE]
    /\ calls' = [calls EXCEPT ![t] = Idle]
    /\ UNCHANGED <<noop, env>>

Disconnect(id) ==
    /\ tunnels' = disconnect(id).tunnels
    /\ sessions' = disconnect(id).sessions
    /\ noop' = (noop \/ tunnels[id] = None)
    /\ UNCHANGED <<calls, env>>

DisconnectAll ==
    /\ sessions' = [s \in Sess |->
                      IF \E id \in Ids : tunnels[id] = s
                      THEN Notify(sessions[s]) ELSE sessions[s]]
    /\ tunnels' = [id \in Ids |-> None]
    /\ UNCHANGED <<calls, noop, env>>

\* ----------------------------------------------------- the supervision task
\* From the task's start to the loop: emit connecting, find_cloudflared_path.
TaskStart(s) ==
    /\ sessions[s].pc = "start"
    /\ \E found \in BOOLEAN :
         Set(s, IF found
                THEN [sessions[s] EXCEPT !.pc = "loop", !.out = <<EvStarting>>,
                                         !.rout = NoEv]
                ELSE [sessions[s] EXCEPT !.pc = "done", !.rout = NoEv,
                                         !.out = <<EvStarting, EvNotFound>>])
    /\ UNCHANGED <<tunnels, calls, noop, env>>

\* The scenario's bound on spawn attempts; it never holds back a task with a
\* pending stop, which ends within two more attempts.
CanSpawn(s) == sessions[s].nSpawn < env.spawns \/ sessions[s].permit

\* Variant of SpawnOk: detected_url declared outside the loop, so it
\* survives from one attempt to the next.
SpawnOk_keepurl(s) ==
    /\ sessions[s].pc = "loop"
    /\ CanSpawn(s)
    /\ Set(s, [sessions[s] EXCEPT
                 !.pc = "running", !.out = <<EvPort, EvAuth>>, !.rout = NoEv,
                 !.child = "running", !.exit_status = "none",
                 !.reader = "waiting", !.aborted = FALSE, !.line = NoLine,
                 !.is_connected = FALSE,
                 !.nLines = 0, !.connEmitted = FALSE, !.attemptUrl = NoUrl,
                 !.nSpawn = @ + 1, !.spawnedOk = TRUE])
    /\ UNCHANGED <<tunnels, calls, noop, env>>

\* cmd.spawn() returns Ok(child): a fresh is_connected flag and reader task
\* (with its own detected_url).
SpawnOk(s) ==
    /\ sessions[s].pc = "loop"
    /\ CanSpawn(s)
    /\ Set(s, [sessions[s] EXCEPT
                 !.pc = "running", !.out = <<EvPort, EvAuth>>, !.rout = NoEv,
                 !.child = "running", !.exit_status = "none",
                 !.reader = "waiting", !.aborted = FALSE, !.line = NoLine,
                 !.is_connected = FALSE, !.detected_url = NoUrl,
                 !.nLines = 0, !.connEmitted = FALSE, !.attemptUrl = NoUrl,
                 !.nSpawn = @ + 1, !.spawnedOk = TRUE])
    /\ UNCHANGED <<tunnels, calls, noop, env>>

\* Variant of SpawnNotFound: without the early break, NotFound falls through
\* to the retry accounting of the other spawn failures.
SpawnNotFound_retry(s) ==
    /\ sessions[s].pc = "loop"
    /\ CanSpawn(s)
    /\ LET d == [retry_count |-> sessions[s].retry_count + 1,
                 stop |-> sessions[s].retry_count + 1 >= MAX_RETRIES] IN
       Set(s, [sessions[s] EXCEPT
                 !.retry_count = d.retry_count,
                 !.pc = IF d.stop THEN "done" ELSE "delay",
                 !.timer = IF d.stop THEN "off" ELSE "pending",
                 !.out = IF d.stop THEN <<EvPort, EvNotFound, EvGiveUpStart>>
                                   ELSE <<EvPort, EvNotFound>>,
                 !.rout = NoEv,
                 !.nSpawn = @ + 1])
    /\ UNCHANGED <<tunnels, calls, noop, env>>

\* cmd.spawn() returns Err with kind NotFound.
SpawnNotFound(s) ==
    /\ sessions[s].pc = "loop"
    /\ CanSpawn(s)
    /\ Set(s, [sessions[s] EXCEPT
                 !.pc = "done", !.out = <<EvPort, EvNotFound>>, !.rout = NoEv,
                 !.nSpawn = @ + 1])
    /\ UNCHANGED <<tunnels, calls, noop, env>>

\* cmd.spawn() returns any other Err.
SpawnFail(s) ==
    /\ sessions[s].pc = "loop"
    /\ CanSpawn(s)
    /\ LET d == SpawnFailDecision(sessions[s].retry_count) IN
       Set(s, [sessions[s] EXCEPT
                 !.retry_count = d.retry_count,
                 !.pc = IF d.stop THEN "done" ELSE "delay",
                 !.timer = IF d.stop THEN "off" ELSE "pending",
                 !.out = IF d.stop THEN <<EvPort, EvStartFail, EvGiveUpStart>>
                                   ELSE <<EvPort, EvStartFail>>,
                 !.rout = NoEv,
                 !.nSpawn = @ + 1, !.spawnFailed = TRUE, !.allConn = FALSE])
    /\ UNCHANGED <<tunnels, calls, noop, env>>

\* The supervised process ends by itself.
ChildExit(s) ==
    /\ sessions[s].child = "running"
    /\ \E st \in env.exits :
         Set(s, [sessions[s] EXCEPT !.child = "exited", !.exit_status = st])
    /\ UNCHANGED <<tunnels, calls, noop, env>>

\* select!, branch child.wait(): abort the reader, emit the exit status,
\* consult the backoff policy.
OnExit(s) ==
    /\ sessions[s].pc = "running"
    /\ sessions[s].child = "exited"
    /\ LET r == sessions[s]
           d == ExitDecision(r.is_connected, r.retry_count) IN
       Set(s, [Abort(r) EXCEPT
                 !.retry_count = d.retry_count,
                 !.pc = IF d.stop THEN "done" ELSE "delay",
                 !.timer = IF d.stop THEN "off" ELSE "pending",
                 !.out = <<ExitEvent(r.exit_status), d.ev>>, !.rout = NoEv,
                 !.everConn = @ \/ r.is_connected,
                 !.child = "none", !.exit_status = "none",
                 !.nReconn = IF d.stop THEN @ ELSE @ + 1,
                 !.allConn = @ /\ r.connEmitted])
    /\ UNCHANGED <<tunnels, calls, noop, env>>

\* select!, branch notify_clone.notified(): kill, abort, emit, break.
OnStop(s) ==
    /\ sessions[s].pc = "running"
    /\ sessions[s].permit
    /\ Set(s, [Abort(sessions[s]) EXCEPT
                 !.permit = FALSE, !.pc = "done", !.out = <<EvStopped>>,
                 !.rout = NoEv,
                 !.child = Kill(@),
                 !.nKill = @ + 1, !.nStopped = @ + 1])
    /\ UNCHANGED <<tunnels, calls, noop, env>>

\* The 5 s sleep of the retry delay expires (a sleep dropped by the stop
\* branch stays as it was).  It outlasts the synchronous
\* processing of the one line an aborted reader may still hold, and the
\* poll of a task that a notification has made runnable: a tie of the two
\* branches arises when the notification comes after the expiry and before
\* the poll.
TimerFire(s) ==
    /\ sessions[s].pc = "delay"
    /\ sessions[s].timer = "pending"
    /\ ~sessions[s].permit
    /\ sessions[s].reader \notin {"got", "stored"}
    /\ Set(s, [sessions[s] EXCEPT !.timer = "expired"])
    /\ UNCHANGED <<tunnels, calls, noop, env>>

\* second select!, branch sleep: back to the head of the loop.
DelayElapsed(s) ==
    /\ sessions[s].pc = "delay"
    /\ sessions[s].timer = "expired"
    /\ Set(s, [sessions[s] EXCEPT !.pc = "loop", !.timer = "off"])
    /\ UNCHANGED <<tunnels, calls, noop, env>>

\* Variant of DelayStop: without the break, the loop goes on after the event.
DelayStop_nobreak(s) ==
    /\ sessions[s].pc = "delay"
    /\ sessions[s].permit
    /\ Set(s, [sessions[s] EXCEPT
                 !.permit = FALSE, !.pc = "loop",
                 !.out = <<EvStopped>>, !.rout = NoEv, !.nStopped = @ + 1])
    /\ UNCHANGED <<tunnels, calls, noop, env>>

\* second select!, branch notify_clone.notified(): emit, break.
DelayStop(s) ==
    /\ sessions[s].pc = "delay"
    /\ sessions[s].permit
    /\ Set(s, [sessions[s] EXCEPT
                 !.permit = FALSE, !.pc = "done",
                 !.out = <<EvStopped>>, !.rout = NoEv, !.nStopped = @ + 1])
    /\ UNCHANGED <<tunnels, calls, noop, env>>

\* ---------------------------------------------------------- the reader task
\* lines.next_line().await returns a line; a line that matches no rule is
\* dropped at once (it stays in view until the next line is taken).
ReaderNext(s) ==
    /\ sessions[s].reader = "waiting"
    /\ sessions[s].nLines < env.lines
    /\ \E line \in LineSet :
         LET c == Classify(line) IN
         Set(s, [sessions[s] EXCEPT
                   !.nLines = @ + 1,
                   !.reader = IF c = "nomatch" THEN "waiting" ELSE "got",
                   !.line = line,
                   !.attemptUrl = IF c = "url" THEN ExtractUrl(line) ELSE @,
                   !.classified = @ \/ IsConnectedClass(c)])
    /\ UNCHANGED <<tunnels, calls, noop, env>>

\* is_connected_clone.store(true) (after detected_url = Some(url) on the
\* quick-tunnel branch).
ReaderStore(s) ==
    /\ sessions[s].reader = "got"
    /\ IsConnectedClass(Classify(sessions[s].line))
    /\ Set(s, [sessions[s] EXCEPT
                 !.reader = "stored", !.is_connected = TRUE,
                 !.detected_url = IF Classify(sessions[s].line) = "url"
                                  THEN ExtractUrl(sessions[s].line) ELSE @])
    /\ UNCHANGED <<tunnels, calls, noop, env>>

\* the event the reader emits for a line of class c
ReaderEvent(c, line, detected_url) ==
    IF c = "registered" THEN Ev("connected", "Tunnel established", detected_url)
    ELSE IF c = "url" THEN Ev("connected", "Tunnel ready", detected_url)
    ELSE IF c = "established" THEN Ev("connected", "Tunnel connected", detected_url)
    ELSE Ev("error", "line", NoUrl)

\* emit_output(...), then back to next_line().await, where an abort lands.
ReaderEmit(s) ==
    /\ \/ sessions[s].reader = "stored"
       \/ sessions[s].reader = "got" /\ Classify(sessions[s].line) = "error"
    /\ LET r == sessions[s]
           c == Classify(r.line) IN
       Set(s, [r EXCEPT
                 !.rout = ReaderEvent(c, r.line, r.detected_url),
                 !.connEmitted = @ \/ IsConnectedClass(c),
                 !.reader = IF r.aborted THEN "stopped" ELSE "waiting",
                 !.line = NoLine])
    /\ UNCHANGED <<tunnels, calls, noop, env>>

\* ----------------------------------------------------------- specifications
Scenario(e) ==
    /\ env = e
    /\ tunnels = [id \in 1..e.ids |-> None]
    /\ sessions = <<>>
    /\ calls = [t \in 1..e.threads |-> Idle]
    /\ noop = FALSE

\* one id, one session, followed through its retries
Init == Scenario([ids |-> DeepIds, threads |-> 1, sessions |-> 1,
                  spawns |-> MaxSpawns, lines |-> MaxLines,
                  exits |-> ExitStatuses, lineset |-> "session"])

\* several ids, threads and sessions, each session followed for few attempts
\* one id, one session, a short life: the scenario of the fair specification
InitFair == Scenario([ids |-> 1, threads |-> 1, sessions |-> 1,
                      spawns |-> FairSpawns, lines |-> FairLines,
                      exits |-> ExitStatuses, lineset |-> "session"])

InitWide == Scenario([ids |-> WideIds, threads |-> WideThreads,
                      sessions |-> WideSessions, spawns |-> WideSpawns,
                      lines |-> 1, exits |-> {"failure"},
                      lineset |-> "registered"])

\* one session whose attempts read registered lines and lines with two
\* different URLs
InitUrl == Scenario([ids |-> 1, threads |-> 1, sessions |-> 1,
                     spawns |-> UrlSpawns, lines |-> UrlLines,
                     exits |-> {"failure"}, lineset |-> "url"])

\* one session, one attempt, one line drawn from every line of the
\* classifier scenario
InitClassifier == Scenario([ids |-> 1, threads |-> 1, sessions |-> 1,
                            spawns |-> 1, lines |-> 1,
                            exits |-> {"failure"}, lineset |-> "classifier"])

Next ==
    \/ \E t \in Threads, id \in Ids : ConnectSpawn(t, id)
    \/ \E t \in Threads : ConnectInsert(t)
    \/ \E id \in Ids : Disconnect(id)
    \/ DisconnectAll
    \/ \E s \in Sess : TaskStart(s)
    \/ \E s \in Sess : SpawnOk(s)
    \/ \E s \in Sess : SpawnNotFound(s)
    \/ \E s \in Sess : SpawnFail(s)
    \/ \E s \in Sess : ChildExit(s)
    \/ \E s \in Sess : OnExit(s)
    \/ \E s \in Sess : OnStop(s)
    \/ \E s \in Sess : TimerFire(s)
    \/ \E s \in Sess : DelayElapsed(s)
    \/ \E s \in Sess : DelayStop(s)
    \/ \E s \in Sess : ReaderNext(s)
    \/ \E s \in Sess : ReaderStore(s)
    \/ \E s \in Sess : ReaderEmit(s)

Spec == Init /\ [][Next]_vars

\* The steps of a session's supervision task.  The runtime polls every task
\* that has been woken, so a step of the task that stays possible is taken.
Supervise(s) ==
    /\ s \in Sess
    /\ \/ TaskStart(s) \/ SpawnOk(s) \/ SpawnNotFound(s) \/ SpawnFail(s)
       \/ OnExit(s) \/ OnStop(s) \/ DelayElapsed(s) \/ DelayStop(s)

SpecFair == InitFair /\ [][Next]_vars /\ WF_vars(Supervise(1))

SpecWide == InitWide /\ [][Next]_vars

SpecClassifier == InitClassifier /\ [][Next]_vars

SpecUrl == InitUrl /\ [][Next]_vars


\* --------------------------------------------------------------- properties
LastOut(r) == IF Len(r.out) = 0 THEN NoEv ELSE r.out[Len(r.out)]

CountStatus(seq, st) == Cardinality({i \in 1..Len(seq) : seq[i].status = st})

GaveUp(r) == LastOut(r) \in {EvGiveUpConn, EvGiveUpStart}

\* a session that was inserted into the registry and is no longer its id's entry
LeftRegistry(s) == sessions[s].inserted /\ tunnels[sessions[s].id] # s

\* once the supervision task has ended it takes no further step
DoneIsFinal(s) ==
    sessions[s].pc = "done" =>
        /\ sessions'[s].pc = "done"
        /\ sessions'[s].nSpawn = sessions[s].nSpawn
        /\ sessions'[s].out = sessions[s].out

\* C1: every session that has left the registry (removed by disconnect,
\* cleared by disconnect_all, or replaced by a later insert for its id) has
\* had its stop signal raised; so at most one unsignalled session per id.
C1_SignalledWhenLeaving ==
    \A s \in Sess : LeftRegistry(s) => sessions[s].nSignal >= 1

\* C2: a session in which no line is classified Connected, no spawn fails
\* and no stop is requested emits `reconnecting` at most 3 times, spawns at
\* most 4 times, and once it has ended after a spawn it has done exactly
\* that and its last event is the terminal `error`.
C2_ThreeRetriesThenError ==
    \A s \in Sess :
        LET r == sessions[s] IN
        (~r.classified /\ ~r.spawnFailed /\ r.nSignal = 0) =>
            /\ r.nReconn <= MAX_RETRIES
            /\ r.nSpawn <= MAX_RETRIES + 1
            /\ (r.pc = "done" /\ r.spawnedOk /\ LastOut(r) # EvNotFound) =>
                   /\ r.nReconn = MAX_RETRIES
                   /\ r.nSpawn = MAX_RETRIES + 1
                   /\ LastOut(r) = EvGiveUpConn

C2_Witness ==
    \E s \in Sess :
        LET r == sessions[s] IN
        /\ ~r.classified /\ ~r.spawnFailed /\ r.nSignal = 0
        /\ r.pc = "done" /\ LastOut(r) = EvGiveUpConn
        /\ r.nReconn = 3 /\ r.nSpawn = 4

\* C3: once an exit of the session has found the connected flag set, the
\* session never stops with a retry-budget-exhausted `error`.
C3_ConnectedEverLatched ==
    \A s \in Sess : sessions[s].everConn => ~GaveUp(sessions[s])

\* C4: when the exit branch handles an exit of an attempt that emitted
\* `connected`, retry_count becomes 0, `reconnecting` is emitted and the
\* session enters the retry delay, whatever retry_count was; and a session
\* whose every attempt connected before its exit never emits the terminal
\* `error`.
C4_ConnectedExitResets ==
    [][\A s \in Sess :
         LET r == sessions[s]
             q == sessions'[s] IN
         /\ (r.pc = "running" /\ r.connEmitted /\ q.pc # "running"
             /\ q.nStopped = r.nStopped) =>
                /\ q.retry_count = 0
                /\ q.pc = "delay" /\ q.timer = "pending"
                /\ LastOut(q) = EvLost
                /\ q.nReconn = r.nReconn + 1
         /\ (q.allConn /\ ~q.spawnFailed) => ~GaveUp(q)]_vars

C4_Witness ==
    \E s \in Sess :
        LET r == sessions[s] IN
        /\ r.allConn /\ r.nReconn >= 5 /\ r.retry_count = 0
        /\ r.pc = "delay" /\ LastOut(r) = EvLost

\* C5: a session whose every spawn fails (not with NotFound) has made
\* MAX_RETRIES + 1 spawn attempts when it stops with the terminal `error`.
C5_SpawnFailureBudget ==
    \A s \in Sess :
        LET r == sessions[s] IN
        (r.pc = "done" /\ ~r.spawnedOk /\ LastOut(r) = EvGiveUpStart) =>
            r.nSpawn = MAX_RETRIES + 1

\* C6: a step that emits the "cloudflared not found" error emits exactly one
\* `error` and no `reconnecting`, leaves retry_count alone, starts no retry
\* delay and ends the session, which then spawns nothing more.
C6_NotFoundIsTerminal ==
    [][\A s \in Sess :
         LET r == sessions[s]
             q == sessions'[s] IN
         /\ (r.pc # "done" /\ q.out # r.out
             /\ \E i \in 1..Len(q.out) : q.out[i] = EvNotFound) =>
                /\ CountStatus(q.out, "error") = 1
                /\ CountStatus(q.out, "reconnecting") = 0
                /\ q.retry_count = r.retry_count
                /\ q.nReconn = r.nReconn
                /\ q.timer = r.timer /\ q.timer # "pending"
                /\ q.child = r.child /\ q.child # "running"
                /\ q.pc = "done"
         /\ DoneIsFinal(s)]_vars

C6_Witness ==
    \E s \in Sess :
        LET r == sessions[s] IN
        /\ r.pc = "done" /\ r.out = <<EvPort, EvNotFound>>
        /\ r.retry_count = 2 /\ r.nSpawn = 3

C8_NoConnectedAfterTerminal ==
    \A s \in Sess :
        (sessions[s].nSignal >= 1 /\ sessions[s].pc = "done") =>
            sessions[s].rout.status # "connected"

\* C9: a disconnect that finds no entry for its id changes neither the
\* registry, nor any session (no signal, no event), nor any call in flight.
C9_DisconnectAbsentIsNoOp ==
    [][(~noop /\ noop') => UNCHANGED <<tunnels, sessions, calls>>]_vars

C9_Witness ==
    /\ noop
    /\ \E s \in Sess : /\ sessions[s].pc = "running"
                       /\ sessions[s].inserted
                       /\ sessions[s].nSignal = 0

\* C10: every session is signalled at most once, calls kill at most once and
\* emits "Tunnel stopped" at most once, whatever disconnect and
\* disconnect_all calls are made and whenever they arrive.
C10_SingleShot ==
    \A s \in Sess :
        /\ sessions[s].nSignal <= 1
        /\ sessions[s].nKill <= 1
        /\ sessions[s].nStopped <= 1
        /\ sessions[s].nKill <= sessions[s].nSignal
        /\ sessions[s].nStopped <= sessions[s].nSignal

\* a stop that raced the natural exit: kill called on a child that had
\* already exited, and a later disconnect found nothing
C10_Witness ==
    /\ noop
    /\ \E s \in Sess :
         /\ sessions[s].pc = "done" /\ sessions[s].child = "exited"
         /\ sessions[s].nSignal = 1 /\ sessions[s].nKill = 1
         /\ sessions[s].nStopped = 1

\* C11: a child never outlives its supervision task: whenever a session's
\* task has ended (terminal error, external stop, binary not found), no child
\* spawned by that session is still running.
C11_NoChildOutlivesTask ==
    \A s \in Sess : sessions[s].pc = "done" => sessions[s].child # "running"

\* a task stopped while its child was running: the child has been killed
C11_Witness ==
    \E s \in Sess :
        /\ sessions[s].pc = "done" /\ sessions[s].child = "killed"
        /\ sessions[s].nKill = 1 /\ sessions[s].nSpawn >= 1

\* the events that describe a permanent end
EndEvents == {EvNotFound, EvGiveUpStart, EvGiveUpConn, EvStopped}

CountEnd(seq) == Cardinality({i \in 1..Len(seq) : seq[i] \in EndEvents})

\* events of status `error` or `disconnected`
CountTerminal(seq) == CountStatus(seq, "error") + CountStatus(seq, "disconnected")

\* C12, as stated: every permanent end of a session is preceded by exactly one
\* emitted terminal event (`error` or `disconnected`): the ending is not
\* silent and does not produce two terminal events.
C12_ExactlyOneTerminalEvent ==
    \A s \in Sess :
        sessions[s].pc = "done" => CountTerminal(sessions[s].out) = 1

\* C12, amended: every permanent end is preceded by exactly one event that
\* describes it, the last event of the supervision task, and no task goes on
\* after such an event; when the retry budget is exhausted that event follows
\* the `error` or `disconnected` event of the failed attempt, so the ending
\* produces two events of terminal status there and one everywhere else.
C12_OneEndEvent ==
    \A s \in Sess :
        LET r == sessions[s] IN
        IF r.pc = "done"
        THEN /\ LastOut(r) \in EndEvents
             /\ CountEnd(r.out) = 1
             /\ CountTerminal(r.out) = IF GaveUp(r) THEN 2 ELSE 1
        ELSE CountEnd(r.out) = 0

\* the budget ran out on a clean exit: `disconnected`, then the final `error`
C12_Witness ==
    \E s \in Sess :
        /\ sessions[s].pc = "done"
        /\ sessions[s].out = <<EvClosed, EvGiveUpConn>>

\* C13: cancellation wins ties at both selects: when the stop signal is
\* pending at the moment the child's exit (or the retry timer's expiry) is
\* ready as well, the task's step emits `disconnected` and ends, with no
\* `error` or `reconnecting` for that exit and without another attempt.
C13_CancellationWinsTies ==
    [][\A s \in Sess :
         LET r == sessions[s]
             q == sessions'[s] IN
         (/\ r.permit
          /\ \/ r.pc = "running" /\ r.child = "exited"
             \/ r.pc = "delay" /\ r.timer = "expired"
          /\ q.pc # r.pc)
         => (q.pc = "done" /\ q.out = <<EvStopped>>)]_vars

\* C14: an external stop is terminal and never retried: from the moment a
\* session has been signalled it spawns no new child, whether the signal came
\* before its first spawn, while its child was running, or between the end
\* of a retry delay and the next spawn.
C14_NoSpawnAfterSignal ==
    [][\A s \in Sess :
         sessions[s].nSignal >= 1 => sessions'[s].nSpawn = sessions[s].nSpawn]_vars

C16_AfterReconnecting ==
    [][\A s \in Sess :
         LET r == sessions[s]
             q == sessions'[s] IN
         (LastOut(r).status = "reconnecting" /\ r.rout = NoEv) =>
             /\ q.rout # r.rout =>
                    q.rout.status \in {"connecting", "disconnected"}
             /\ q.out # r.out =>
                    q.out[1].status \in {"connecting", "disconnected"}]_vars

\* the rules of the classifier, as line predicates
RuleRegistered(l) ==
    LowerContains(l, "registered")
    /\ (LowerContains(l, "connection") \/ LowerContains(l, "connindex"))
RuleDomain(l) ==
    RawContains(l, ".trycloudflare.com") \/ RawContains(l, ".cfargotunnel.com")
RuleError(l) ==
    \/ LowerContains(l, "err ")
    \/ LowerContains(l, "unable to")
    \/ LowerContains(l, "failed") /\ ~LowerContains(l, "failed to parse")
RuleConnector(l) ==
    LowerContains(l, "initial protocol") \/ LowerContains(l, "connection established")

\* the lines that yield no event
Silent(l) ==
    /\ ~RuleRegistered(l)
    /\ \/ RuleDomain(l) /\ ~RawContains(l, "https://")
       \/ ~RuleDomain(l) /\ ~RuleError(l) /\ ~RuleConnector(l)

\* C17: the classifier applies its rules in the precedence registered >
\* domain marker > error marker > connector-established and yields at most
\* one event per line: a registered line is `connected` "Tunnel established"
\* even with an error marker; a domain line yields "Tunnel ready" with its URL
\* when it has "https://" and no event otherwise, even when the error or
\* connector rule matches too; "failed" inside "failed to parse" is no error.
C17_ClassifierPrecedence ==
    [][\A s \in Sess :
         LET r == sessions[s]
             q == sessions'[s] IN
         /\ q.nLines = r.nLines + 1 =>            \* the reader took q.line
                (q.reader = "waiting" <=> Silent(q.line))
         /\ (/\ r.reader \in {"got", "stored"}    \* the reader emitted for r.line
             /\ q.reader \in {"waiting", "stopped"}
             /\ q.nSpawn = r.nSpawn) =>
                LET l == r.line IN
                /\ q.line = NoLine
                /\ RuleRegistered(l) =>
                       q.rout = Ev("connected", "Tunnel established", r.detected_url)
                /\ (~RuleRegistered(l) /\ RuleDomain(l)) =>
                       q.rout = Ev("connected", "Tunnel ready", l.tok)
                /\ (~RuleRegistered(l) /\ ~RuleDomain(l) /\ RuleError(l)) =>
                       q.rout.status = "error"
                /\ (~RuleRegistered(l) /\ ~RuleDomain(l) /\ ~RuleError(l)) =>
                       q.rout = Ev("connected", "Tunnel connected", r.detected_url)]_vars

\* a line with a domain marker, no "https://" and a "failed" of its own has
\* been read and dropped without an event
C17_Witness ==
    \E s \in Sess :
        LET r == sessions[s] IN
        /\ r.nLines = 1 /\ r.reader = "waiting" /\ r.rout = NoEv
        /\ RawContains(r.line, ".trycloudflare.com")
        /\ ~RawContains(r.line, "https://")
        /\ LowerContains(r.line, "failed")
        /\ ~LowerContains(r.line, "failed to parse")

\* C18: the detected URL is sticky within an attempt and only there: a
\* `connected` event carries the URL most recently extracted from a line of
\* its own attempt, and no URL when the attempt has not yet read a URL line,
\* whatever the attempts before it have read.
C18_UrlStickyWithinAttempt ==
    [][\A s \in Sess :
         LET r == sessions[s]
             q == sessions'[s] IN
         (/\ r.reader \in {"got", "stored"}
          /\ q.reader \in {"waiting", "stopped"}
          /\ q.nSpawn = r.nSpawn
          /\ q.rout.status = "connected")
         => q.rout.url = r.attemptUrl]_vars

\* the second attempt has read three lines, and its registered line carries
\* the URL of the named-tunnel line
C18_Witness ==
    \E s \in Sess :
        /\ sessions[s].nSpawn = 2 /\ sessions[s].nLines = 3
        /\ sessions[s].rout =
               Ev("connected", "Tunnel established", "https://t1.cfargotunnel.com")

\* C19: disconnect(id) and a connect(id, ...) (its disconnect of the old
\* entry, its spawn and its insert) leave the registry entry, the stop
\* signal, the retry_count and the child of every session with a different
\* id unchanged.
C19_OtherIdsUntouched ==
    [][\A id \in Ids :
         (\/ Disconnect(id)
          \/ \E t \in Threads : ConnectSpawn(t, id)
          \/ \E t \in Threads : calls[t].id = id /\ ConnectInsert(t))
         => /\ \A j \in Ids \ {id} : tunnels'[j] = tunnels[j]
            /\ \A s \in Sess :
                 sessions[s].id # id => sessions'[s] = sessions[s]]_vars

\* one id has been disconnected (its session signalled and removed) while
\* the session of another id is still registered, unsignalled, child running
C19_Witness ==
    \E a, b \in Sess :
        /\ sessions[a].id # sessions[b].id
        /\ sessions[a].nSignal = 1 /\ tunnels[sessions[a].id] = None
        /\ tunnels[sessions[b].id] = b /\ sessions[b].nSignal = 0
        /\ sessions[b].child = "running" /\ sessions[b].permit = FALSE

\* C20: no registry entry outlives its session: once a session's loop has
\* ended by itself (binary missing, retry budget exhausted) the registry
\* holds no entry for it, and get_status of its id answers "inactive"
\* without any disconnect when no other session of that id is alive.
C20_NoEntryOutlivesSession ==
    \A s \in Sess :
        LET r == sessions[s] IN
        (r.pc = "done" /\ r.nStopped = 0 /\ r.inserted) =>
            /\ tunnels[r.id] # s
            /\ (\A u \in Sess : sessions[u].id = r.id => sessions[u].pc = "done")
                   => get_status(r.id) = "inactive"

====
